---- MODULE Spec2Model ----
(***************************************************************************)
(* The browser-side controller of the video transcriber                    *)
(* (src/frontend/script.js): file intake through the picker and through    *)
(* drag and drop, the post-processing toggle, the submit handler with its  *)
(* one network exchange, and the back button.                              *)
(*                                                                         *)
(* Every event handler is one action.  The submit handler is an async      *)
(* function: the action Submit is its synchronous part up to the await of  *)
(* fetch, and Settle is its continuation, run when the exchange has        *)
(* settled.  (The continuation awaits once more, for response.json(), but  *)
(* writes nothing between the two awaits, so both are one step.)  The      *)
(* handlers have no guards of their own, so every event is enabled in      *)
(* every state.                                                            *)
(*                                                                         *)
(* What a handler hands to the outside is recorded for the step that does  *)
(* it: alerted is the text of the alert() it raised and posted the request *)
(* it gave to fetch(); likewise response is what a continuation was        *)
(* resumed with.  Of an exchange under way the program keeps only          *)
(* the suspended continuation, which reads neither the request nor the     *)
(* controls, so inflight counts the suspended continuations.               *)
(***************************************************************************)
EXTENDS Naturals, Sequences, FiniteSets

VARIABLES
    files,                \* fileInput.files, a list of file names
    fileName,             \* fileNameDisplay.textContent
    hasFile,              \* dropZone.classList contains "has-file"
    dragover,             \* dropZone.classList contains "dragover"
    ppChecked,            \* ppToggle.checked
    ppDefault,            \* ppToggle.defaultChecked (set by the page, never written)
    ppSectionHidden,      \* ppSection.classList contains "hidden"
    language,             \* #language value
    whisperPrompt,        \* #whisperPrompt value
    postProcessingPrompt, \* #postProcessingPrompt value
    formHidden,           \* form.classList contains "hidden"
    loadingHidden,        \* #loadingSection.classList contains "hidden"
    resultHidden,         \* #resultSection.classList contains "hidden"
    videoSrc,             \* #resultVideo src
    downloadHref,         \* #downloadTranscript href
    inflight,             \* number of fetch() calls that have not settled
    alerted,              \* message of the alert() raised by the last handler run, "" if none
    posted,               \* request the last handler run gave to fetch(), NoRequest if none
    response,             \* what the last handler run was resumed with, NoResponse if nothing
    posts,                \* number of fetch() calls made so far
    submits               \* number of submit events that found a file

selection == <<files, fileName, hasFile>>
options   == <<language, whisperPrompt, ppChecked, postProcessingPrompt>>
panels    == <<formHidden, loadingHidden, resultHidden>>
results   == <<videoSrc, downloadHref>>
network   == <<inflight, posts, submits>>
vars == <<files, fileName, hasFile, dragover, ppChecked, ppDefault, ppSectionHidden,
          language, whisperPrompt, postProcessingPrompt, formHidden, loadingHidden,
          resultHidden, videoSrc, downloadHref, inflight, alerted, posted, response,
          posts, submits>>

-----------------------------------------------------------------------------
(* Bounds of the model *)

MaxPosts == 2   \* submissions with a file that the model follows

-----------------------------------------------------------------------------
(* Values *)

FileNames == {"a.mp4", "b.mp4"}
Languages == {"en", "zh"}
Prompts   == {"", "names"}
VideoPaths      == {"/v/1.mp4"}
TranscriptPaths == {"/t/1.json"}
Statuses  == {200, 299, 300}

\* response.ok
ResponseOk(status) == status \in 200..299

DefaultLanguage == "en"
DefaultPrompt   == ""
DefaultLabel    == "Click or Drag Video File Here"
ServiceOrigin   == "http://localhost:8000"
TranscribeUrl   == "http://localhost:8000/transcribe"
NoRequest       == <<>>
NoResponse      == <<>>
ValidationMessage == "Please select a video file."

\* A FileList: any of the files, none twice, possibly none at all.
FileLists ==
    {fs \in UNION {[1..n -> FileNames] : n \in 0..Cardinality(FileNames)} :
        \A i, j \in DOMAIN fs : fs[i] = fs[j] => i = j}

\* String(b) as FormData.append renders a boolean.
BoolToString(b) == IF b THEN "true" ELSE "false"

\* The JSON objects a body can be: each of the two fields present or not.
JsonObjects ==
    {[k \in ks |-> IF k = "video_url" THEN v ELSE t] :
        ks \in SUBSET {"video_url", "transcript_url"},
        v \in VideoPaths, t \in TranscriptPaths}

\* What the exchange can settle to: fetch rejects ("reject"), or a response
\* arrives with a status and a body that is no JSON ("text"), the JSON null
\* ("null"), or a JSON object ("object").  The body of a response whose
\* status is not ok is never read; two such bodies stand for all.
Responses ==
    [kind : {"reject"}, status : {0}, body : {<<>>}]
      \cup [kind : {"text", "null"}, status : {c \in Statuses : ResponseOk(c)}, body : {<<>>}]
      \cup [kind : {"object"}, status : {c \in Statuses : ResponseOk(c)}, body : JsonObjects]
      \cup [kind : {"text"}, status : {c \in Statuses : ~ResponseOk(c)}, body : {<<>>}]
      \cup [kind : {"object"}, status : {c \in Statuses : ~ResponseOk(c)},
             body : {b \in JsonObjects : DOMAIN b = {"video_url", "transcript_url"}}]

\* data.<key> as string concatenation sees it: a missing property is
\* undefined, which concatenates as "undefined".
Field(data, key) == IF key \in DOMAIN data THEN data[key] ELSE "undefined"

\* error.message of what the try block throws.
ErrorMessage(resp) ==
    CASE resp.kind = "reject" -> "Failed to fetch"
      [] ~ResponseOk(resp.status) -> "Transcription failed"
      [] resp.kind = "text" -> "Unexpected token"
      [] OTHER -> "Cannot read properties of null"

\* The try block throws: fetch rejects, the status is not ok, the body does
\* not parse, or data is null when data.video_url is read.
Throws(resp) ==
    \/ resp.kind = "reject"
    \/ ~ResponseOk(resp.status)
    \/ resp.kind \in {"text", "null"}

\* The throw comes after the result panel was shown: only the read of
\* data.video_url on a null body, which follows the panel switch.
ThrowsAfterShow(resp) ==
    resp.kind = "null" /\ ResponseOk(resp.status)

-----------------------------------------------------------------------------
(* Initial state: the page as loaded, after the DOMContentLoaded callback *)

\* (mutant) the else branch is lost: the group is shown but never hidden again.
UpdatePostProcessingVisibility_NeverHides(checked, hidden) ==
    IF checked THEN FALSE ELSE hidden

\* The class that updatePostProcessingVisibility leaves on ppSection.
UpdatePostProcessingVisibility(checked, hidden) ==
    IF checked THEN FALSE ELSE TRUE

\* The page's markup: the form shown, the other two panels hidden, nothing
\* selected, every control at its default.  The toggle's default is either.
PageAsLoaded ==
    /\ files = <<>>
    /\ fileName = DefaultLabel
    /\ hasFile = FALSE
    /\ dragover = FALSE
    /\ ppDefault \in BOOLEAN
    /\ ppChecked = ppDefault
    /\ language = DefaultLanguage
    /\ whisperPrompt = DefaultPrompt
    /\ postProcessingPrompt = DefaultPrompt
    /\ formHidden = FALSE
    /\ loadingHidden = TRUE
    /\ resultHidden = TRUE
    /\ videoSrc = ""
    /\ downloadHref = ""

\* The callback's initial check applies the visibility rule to whatever
\* class the markup gave ppSection.
Init ==
    /\ PageAsLoaded
    /\ ppSectionHidden \in {UpdatePostProcessingVisibility(ppChecked, h) : h \in BOOLEAN}
    /\ inflight = 0
    /\ alerted = ""
    /\ posted = NoRequest
    /\ response = NoResponse
    /\ posts = 0
    /\ submits = 0

-----------------------------------------------------------------------------
(* File intake *)

\* A handler run from an event, calling neither alert() nor fetch().
Quiet == alerted' = "" /\ posted' = NoRequest /\ response' = NoResponse

\* fileInput "change": the picker has installed the chosen list in
\* fileInput.files before the handler runs.
FileInputChange(chosen) ==
    /\ files' = chosen
    /\ IF Len(chosen) > 0
         THEN fileName' = chosen[1] /\ hasFile' = TRUE
         ELSE UNCHANGED <<fileName, hasFile>>
    /\ Quiet
    /\ UNCHANGED <<dragover, ppDefault, ppSectionHidden, options, panels, results, network>>

DragEnter ==
    /\ dragover' = TRUE
    /\ Quiet
    /\ UNCHANGED <<selection, ppDefault, ppSectionHidden, options, panels, results, network>>

DragOver ==
    /\ dragover' = TRUE
    /\ Quiet
    /\ UNCHANGED <<selection, ppDefault, ppSectionHidden, options, panels, results, network>>

\* (mutant) the leave listener removes nothing.
DragLeave_KeepsIndicator ==
    /\ dragover' = dragover
    /\ Quiet
    /\ UNCHANGED <<selection, ppDefault, ppSectionHidden, options, panels, results, network>>

DragLeave ==
    /\ dragover' = FALSE
    /\ Quiet
    /\ UNCHANGED <<selection, ppDefault, ppSectionHidden, options, panels, results, network>>

\* dropZone "drop": the listener of lines 35-41 and the one of lines 43-50.
\* Assigning fileInput.files fires no change event.
Drop(dropped) ==
    /\ dragover' = FALSE
    /\ files' = dropped
    /\ IF Len(dropped) > 0
         THEN fileName' = dropped[1]
         ELSE UNCHANGED fileName
    /\ Quiet
    /\ UNCHANGED <<hasFile, ppDefault, ppSectionHidden, options, panels, results, network>>

-----------------------------------------------------------------------------
(* Options *)

\* (mutant) no listener on the toggle: the click flips it and nothing runs.
ToggleChange_NoListener ==
    /\ ppChecked' = ~ppChecked
    /\ ppSectionHidden' = ppSectionHidden
    /\ Quiet
    /\ UNCHANGED <<selection, dragover, ppDefault, language, whisperPrompt,
                   postProcessingPrompt, panels, results, network>>

\* ppToggle "change": the click has flipped ppToggle.checked, then the
\* handler runs.
ToggleChange ==
    /\ ppChecked' = ~ppChecked
    /\ ppSectionHidden' = UpdatePostProcessingVisibility(ppChecked', ppSectionHidden)
    /\ Quiet
    /\ UNCHANGED <<selection, dragover, ppDefault, language, whisperPrompt,
                   postProcessingPrompt, panels, results, network>>

\* The user edits one of the three option controls; no handler is attached.
SetLanguage(v) ==
    /\ language' = v
    /\ Quiet
    /\ UNCHANGED <<selection, dragover, ppChecked, ppDefault, ppSectionHidden, whisperPrompt,
                   postProcessingPrompt, panels, results, network>>

SetWhisperPrompt(v) ==
    /\ whisperPrompt' = v
    /\ Quiet
    /\ UNCHANGED <<selection, dragover, ppChecked, ppDefault, ppSectionHidden, language,
                   postProcessingPrompt, panels, results, network>>

SetPostProcessingPrompt(v) ==
    /\ postProcessingPrompt' = v
    /\ Quiet
    /\ UNCHANGED <<selection, dragover, ppChecked, ppDefault, ppSectionHidden, language,
                   whisperPrompt, panels, results, network>>

-----------------------------------------------------------------------------
(* Submission *)

\* (mutant) the two prompts are appended under each other's name.
FormData_SwapsPrompts ==
    [video                  |-> files[1],
     language               |-> language,
     whisper_prompt         |-> postProcessingPrompt,
     post_processing        |-> BoolToString(ppChecked),
     post_processing_prompt |-> whisperPrompt]

\* The FormData built from the controls at submit time.
FormData ==
    [video                  |-> files[1],
     language               |-> language,
     whisper_prompt         |-> whisperPrompt,
     post_processing        |-> BoolToString(ppChecked),
     post_processing_prompt |-> postProcessingPrompt]

\* (mutant) the progress panel is shown before the file is looked at.
Submit_ShowsLoadingFirst ==
    /\ formHidden' = TRUE
    /\ loadingHidden' = FALSE
    /\ response' = NoResponse
    /\ IF Len(files) = 0
         THEN /\ alerted' = ValidationMessage
              /\ posted' = NoRequest
              /\ UNCHANGED network
         ELSE /\ posts < MaxPosts
              /\ posted' = [url |-> TranscribeUrl, method |-> "POST", body |-> FormData]
              /\ inflight' = inflight + 1
              /\ posts' = posts + 1
              /\ submits' = submits + 1
              /\ alerted' = ""
    /\ UNCHANGED <<selection, dragover, ppDefault, ppSectionHidden, options, resultHidden,
                   results>>

\* (mutant) a submit while an exchange is in flight is dropped.
Submit_RejectsInFlight ==
    IF Len(files) = 0 \/ inflight > 0
      THEN /\ alerted' = IF Len(files) = 0 THEN ValidationMessage ELSE ""
           /\ posted' = NoRequest
           /\ response' = NoResponse
           /\ UNCHANGED <<selection, dragover, ppDefault, ppSectionHidden, options, panels,
                          results, network>>
      ELSE /\ posts < MaxPosts
           /\ formHidden' = TRUE
           /\ loadingHidden' = FALSE
           /\ posted' = [url |-> TranscribeUrl, method |-> "POST", body |-> FormData]
           /\ inflight' = inflight + 1
           /\ posts' = posts + 1
           /\ submits' = submits + 1
           /\ alerted' = ""
           /\ response' = NoResponse
           /\ UNCHANGED <<selection, dragover, ppDefault, ppSectionHidden, options,
                          resultHidden, results>>

\* form "submit", up to the await of fetch.
Submit ==
    IF Len(files) = 0
      THEN /\ alerted' = ValidationMessage
           /\ posted' = NoRequest
           /\ response' = NoResponse
           /\ UNCHANGED <<selection, dragover, ppDefault, ppSectionHidden, options, panels,
                          results, network>>
      ELSE /\ posts < MaxPosts
           /\ formHidden' = TRUE
           /\ loadingHidden' = FALSE
           /\ posted' = [url |-> TranscribeUrl, method |-> "POST", body |-> FormData]
           /\ inflight' = inflight + 1
           /\ posts' = posts + 1
           /\ submits' = submits + 1
           /\ alerted' = ""
           /\ response' = NoResponse
           /\ UNCHANGED <<selection, dragover, ppDefault, ppSectionHidden, options,
                          resultHidden, results>>

\* (mutant) the two locations are taken from each other's field.
ShowResult_SwapsFields(resp) ==
    /\ loadingHidden' = TRUE
    /\ resultHidden' = FALSE
    /\ videoSrc' = ServiceOrigin \o Field(resp.body, "transcript_url")
    /\ downloadHref' = ServiceOrigin \o Field(resp.body, "video_url")
    /\ inflight' = inflight - 1
    /\ alerted' = ""
    /\ posted' = NoRequest
    /\ UNCHANGED <<formHidden, posts, submits>>

\* (mutant) the result panel is shown without hiding the progress panel.
ShowResult_KeepsLoading(resp) ==
    /\ loadingHidden' = loadingHidden
    /\ resultHidden' = FALSE
    /\ videoSrc' = ServiceOrigin \o Field(resp.body, "video_url")
    /\ downloadHref' = ServiceOrigin \o Field(resp.body, "transcript_url")
    /\ inflight' = inflight - 1
    /\ alerted' = ""
    /\ posted' = NoRequest
    /\ UNCHANGED <<formHidden, posts, submits>>

\* The try block after the awaits, when nothing throws: the result panel
\* replaces the progress panel and gets its two locations.
ShowResult(resp) ==
    /\ loadingHidden' = TRUE
    /\ resultHidden' = FALSE
    /\ videoSrc' = ServiceOrigin \o Field(resp.body, "video_url")
    /\ downloadHref' = ServiceOrigin \o Field(resp.body, "transcript_url")
    /\ inflight' = inflight - 1
    /\ alerted' = ""
    /\ posted' = NoRequest
    /\ UNCHANGED <<formHidden, posts, submits>>

\* (mutant) the catch block posts the request once more.
CatchError_Retries(resp) ==
    /\ alerted' = "An error occurred: " \o ErrorMessage(resp)
    /\ loadingHidden' = TRUE
    /\ formHidden' = FALSE
    /\ resultHidden' = IF ThrowsAfterShow(resp) THEN FALSE ELSE resultHidden
    /\ IF posts < MaxPosts
         THEN /\ posted' = [url |-> TranscribeUrl, method |-> "POST", body |-> NoRequest]
              /\ posts' = posts + 1
              /\ inflight' = inflight
         ELSE /\ posted' = NoRequest
              /\ posts' = posts
              /\ inflight' = inflight - 1
    /\ UNCHANGED <<results, submits>>

\* (mutant) the catch block leaves the progress panel up.
CatchError_KeepsLoading(resp) ==
    /\ alerted' = "An error occurred: " \o ErrorMessage(resp)
    /\ loadingHidden' = loadingHidden
    /\ formHidden' = FALSE
    /\ resultHidden' = IF ThrowsAfterShow(resp) THEN FALSE ELSE resultHidden
    /\ inflight' = inflight - 1
    /\ posted' = NoRequest
    /\ UNCHANGED <<results, posts, submits>>

\* (mutant) the catch block also empties the result panel's two locations.
CatchError_ClearsResult(resp) ==
    /\ alerted' = "An error occurred: " \o ErrorMessage(resp)
    /\ loadingHidden' = TRUE
    /\ formHidden' = FALSE
    /\ resultHidden' = IF ThrowsAfterShow(resp) THEN FALSE ELSE resultHidden
    /\ videoSrc' = ""
    /\ downloadHref' = ""
    /\ inflight' = inflight - 1
    /\ posted' = NoRequest
    /\ UNCHANGED <<posts, submits>>

\* (mutant) the catch block raises the alert and switches no panel.
CatchError_OnlyAlerts(resp) ==
    /\ alerted' = "An error occurred: " \o ErrorMessage(resp)
    /\ resultHidden' = IF ThrowsAfterShow(resp) THEN FALSE ELSE resultHidden
    /\ loadingHidden' = IF ThrowsAfterShow(resp) THEN TRUE ELSE loadingHidden
    /\ formHidden' = formHidden
    /\ inflight' = inflight - 1
    /\ posted' = NoRequest
    /\ UNCHANGED <<results, posts, submits>>

\* The catch block.  When the throw is the read of data.video_url, the two
\* panel switches before it have already happened.
CatchError(resp) ==
    /\ alerted' = "An error occurred: " \o ErrorMessage(resp)
    /\ loadingHidden' = TRUE
    /\ formHidden' = FALSE
    /\ resultHidden' = IF ThrowsAfterShow(resp) THEN FALSE ELSE resultHidden
    /\ inflight' = inflight - 1
    /\ posted' = NoRequest
    /\ UNCHANGED <<results, posts, submits>>

\* The rest of the submit handler, run when an exchange has settled to resp.
Settle(resp) ==
    /\ inflight > 0
    /\ response' = resp
    /\ IF Throws(resp) THEN CatchError(resp) ELSE ShowResult(resp)
    /\ UNCHANGED <<selection, dragover, ppDefault, ppSectionHidden, options>>

-----------------------------------------------------------------------------
(* Back *)

\* (mutant) the handler ends at the label and the flag: the visibility rule
\* is not applied again after the reset.
Back_SkipsVisibilityUpdate ==
    /\ resultHidden' = TRUE
    /\ formHidden' = FALSE
    /\ files' = <<>>
    /\ language' = DefaultLanguage
    /\ whisperPrompt' = DefaultPrompt
    /\ postProcessingPrompt' = DefaultPrompt
    /\ ppChecked' = ppDefault
    /\ fileName' = DefaultLabel
    /\ hasFile' = FALSE
    /\ ppSectionHidden' = ppSectionHidden
    /\ Quiet
    /\ UNCHANGED <<dragover, ppDefault, loadingHidden, results, network>>

\* backBtn "click".  form.reset() puts every control of the form back to its
\* default and fires no change event.
Back ==
    /\ resultHidden' = TRUE
    /\ formHidden' = FALSE
    /\ files' = <<>>
    /\ language' = DefaultLanguage
    /\ whisperPrompt' = DefaultPrompt
    /\ postProcessingPrompt' = DefaultPrompt
    /\ ppChecked' = ppDefault
    /\ fileName' = DefaultLabel
    /\ hasFile' = FALSE
    /\ ppSectionHidden' = UpdatePostProcessingVisibility(ppChecked', ppSectionHidden)
    /\ Quiet
    /\ UNCHANGED <<dragover, ppDefault, loadingHidden, results, network>>

-----------------------------------------------------------------------------

Next ==
    \/ \E chosen \in FileLists : FileInputChange(chosen)
    \/ DragEnter
    \/ DragOver
    \/ DragLeave
    \/ \E dropped \in FileLists : Drop(dropped)
    \/ ToggleChange
    \/ \E v \in Languages : SetLanguage(v)
    \/ \E v \in Prompts : SetWhisperPrompt(v)
    \/ \E v \in Prompts : SetPostProcessingPrompt(v)
    \/ Submit
    \/ \E resp \in Responses : Settle(resp)
    \/ Back

Spec == Init /\ [][Next]_vars

\* The same program when every exchange settles: a suspended continuation
\* is resumed sooner or later.
LiveSpec ==
    Init /\ [][Next]_vars /\ WF_vars(\E resp \in Responses : Settle(resp))

-----------------------------------------------------------------------------
(* The view: which of the three panels are shown *)

ViewForm       == ~formHidden /\ loadingHidden /\ resultHidden
ViewSubmitting == formHidden /\ ~loadingHidden /\ resultHidden
ViewResult     == formHidden /\ loadingHidden /\ ~resultHidden

\* A success status and a JSON object body with both fields.
Succeeds(resp) ==
    /\ resp.kind = "object"
    /\ ResponseOk(resp.status)
    /\ DOMAIN resp.body = {"video_url", "transcript_url"}

\* The three failures: rejection, a status outside 200-299, a success status
\* with a body that is no JSON.
Fails(resp) ==
    \/ resp.kind = "reject"
    \/ ~ResponseOk(resp.status)
    \/ resp.kind = "text"

\* A success status and a JSON object body that lacks one of the two fields.
LacksField(resp) ==
    /\ resp.kind = "object"
    /\ ResponseOk(resp.status)
    /\ DOMAIN resp.body # {"video_url", "transcript_url"}

-----------------------------------------------------------------------------
(* Properties *)

\* C1: in every reachable state exactly one of the three panels (form,
\* progress, result) is visible.
C1_ExactlyOnePanel ==
    ViewForm \/ ViewSubmitting \/ ViewResult

\* C2: a submit with no file selected raises the validation message, gives
\* nothing to fetch, and changes nothing else: the panels (so a visible form
\* stays visible), the selection, the label, the flags, the options and the
\* counters are as before.
C2_SubmitWithoutFile ==
    [][(Submit /\ Len(files) = 0) =>
          /\ alerted' = ValidationMessage
          /\ posted' = NoRequest
          /\ UNCHANGED <<selection, dragover, ppDefault, ppSectionHidden, options,
                         panels, results, network>>]_vars

C2_Witness ==
    /\ alerted = ValidationMessage
    /\ Len(files) = 0
    /\ ViewForm
    /\ language # DefaultLanguage
    /\ ppChecked # ppDefault

\* C3: a submit with a file selected takes the view from Form to Submitting;
\* a settlement with a success status and a body carrying video_url = v and
\* transcript_url = t shows the result panel, hides the progress panel and
\* sets the playback source to origin + v and the download link to
\* origin + t, taking the view from Submitting to Result; the result panel
\* is revealed only by a settlement, hence only after a submit showed the
\* progress panel.
C3_SubmitThenResult ==
    /\ [][(Submit /\ Len(files) > 0 /\ ViewForm) => ViewSubmitting']_vars
    /\ [][(response' # NoResponse /\ Succeeds(response')) =>
            /\ ~resultHidden'
            /\ loadingHidden'
            /\ videoSrc' = ServiceOrigin \o response'.body.video_url
            /\ downloadHref' = ServiceOrigin \o response'.body.transcript_url
            /\ (ViewSubmitting => ViewResult')]_vars
    /\ [][(resultHidden /\ ~resultHidden') =>
            (response' # NoResponse /\ inflight > 0 /\ inflight' = inflight - 1)]_vars
    /\ [](~resultHidden => posts > 0)

C3_Witness ==
    /\ response # NoResponse
    /\ Succeeds(response)
    /\ ViewResult
    /\ videoSrc = "http://localhost:8000/v/1.mp4"
    /\ downloadHref = "http://localhost:8000/t/1.json"
    /\ inflight = 0
    /\ posts = 1

\* C4: a settlement that is a failure (rejection, a status outside 200-299,
\* or a success status with a body that is no JSON) shows the form, hides the
\* progress panel, raises an alert carrying the error's message, and leaves
\* the selection as it was, so a file selected before it is still selected;
\* from Submitting the view becomes Form.
C4_FailureRestoresForm ==
    [][(response' # NoResponse /\ Fails(response')) =>
          /\ ~formHidden'
          /\ loadingHidden'
          /\ resultHidden' = resultHidden
          /\ alerted' = "An error occurred: " \o ErrorMessage(response')
          /\ UNCHANGED selection
          /\ (ViewSubmitting => ViewForm')]_vars

C4_Witness ==
    /\ response # NoResponse
    /\ Fails(response)
    /\ alerted = "An error occurred: Transcription failed"
    /\ ViewForm
    /\ Len(files) > 0
    /\ fileName = files[1]
    /\ inflight = 0

\* C5: a success status whose JSON body lacks video_url or transcript_url
\* gives the failure outcome: the form is shown, an error is raised, and the
\* result panel is not revealed.
C5_MissingFieldIsFailure ==
    [][(response' # NoResponse /\ LacksField(response')) =>
          /\ ~formHidden'
          /\ alerted' # ""
          /\ (resultHidden => resultHidden')]_vars

\* C6: back from Result shows the form and hides the result panel, leaves no
\* file selected, the default label, the file-present flag cleared, every
\* option at its default, and the options group shown exactly when the
\* toggle's default is on.
C6_BackResets ==
    [][(Back /\ ~resultHidden) =>
          /\ ~formHidden'
          /\ resultHidden'
          /\ files' = <<>>
          /\ fileName' = DefaultLabel
          /\ ~hasFile'
          /\ language' = DefaultLanguage
          /\ whisperPrompt' = DefaultPrompt
          /\ postProcessingPrompt' = DefaultPrompt
          /\ ppChecked' = ppDefault
          /\ ppSectionHidden' = ~ppDefault]_vars

C6_Witness ==
    /\ videoSrc # ""
    /\ ViewForm
    /\ files = <<>>
    /\ fileName = DefaultLabel
    /\ ~hasFile
    /\ ppChecked = ppDefault
    /\ alerted = ""
    /\ posted = NoRequest
    /\ inflight = 0

\* C7: a drop that carries at least one file leaves that list installed, the
\* label at the first file's name and the file-present flag set, as the
\* picker does; and the flag, once set, is cleared by back only.
C7_DropLikePicker ==
    [][/\ \A dropped \in FileLists :
            (Drop(dropped) /\ Len(dropped) > 0) =>
               (files' = dropped /\ fileName' = dropped[1] /\ hasFile')
       /\ (hasFile /\ ~hasFile') => Back]_vars

\* C8: dragenter, dragover and dragleave change neither the selection, the
\* label, the file-present flag, the options nor the panels, and dragleave
\* leaves the drag-active indicator cleared.
C8_DragChangesNoData ==
    /\ [][(DragEnter \/ DragOver \/ DragLeave) =>
            UNCHANGED <<selection, options, ppDefault, ppSectionHidden, panels,
                        results, network>>]_vars
    /\ [][DragLeave => ~dragover']_vars

C8_Witness ==
    /\ dragover
    /\ Len(files) > 0
    /\ hasFile
    /\ ppChecked # ppDefault

\* C9: from any reachable state, two toggle changes in a row leave the
\* options group as it is, and applying the visibility rule once more for
\* the same toggle value changes nothing.
C9_ToggleTwice ==
    LET once  == UpdatePostProcessingVisibility(~ppChecked, ppSectionHidden)
        twice == UpdatePostProcessingVisibility(ppChecked, once)
        again == UpdatePostProcessingVisibility(ppChecked, ppSectionHidden)
    IN  /\ twice = ppSectionHidden
        /\ again = ppSectionHidden
        /\ UpdatePostProcessingVisibility(ppChecked, again) = again

C9_Witness ==
    /\ ppChecked # ppDefault
    /\ ppSectionHidden = ~ppChecked
    /\ posts = 0

\* C10: the POSTs issued are as many as the submits that found a file: such
\* a submit gives exactly one POST of /transcribe to fetch, a submit without
\* a file gives none, a settlement gives none, and nothing else posts.
C10_OnePostPerSubmit ==
    /\ [](posts = submits)
    /\ [][(Submit /\ Len(files) > 0) =>
            /\ posts' = posts + 1
            /\ posted' # NoRequest
            /\ posted'.url = TranscribeUrl
            /\ posted'.method = "POST"]_vars
    /\ [][(Submit /\ Len(files) = 0) => (posts' = posts /\ posted' = NoRequest)]_vars
    /\ [][response' # NoResponse => (posts' = posts /\ posted' = NoRequest)]_vars
    /\ [][(posts' # posts \/ posted' # NoRequest) => (Submit /\ Len(files) > 0)]_vars

C10_Witness ==
    /\ response # NoResponse
    /\ posts = 2
    /\ submits = 2
    /\ inflight = 0
    /\ alerted = "An error occurred: Failed to fetch"
    /\ Len(files) > 0

\* C11: in every reachable state the options group is shown exactly when
\* the toggle is on; and the group's visibility changes only in a step that
\* applies the visibility rule (a toggle change or back), where it becomes
\* what the rule gives for the toggle's new value.
C11_GroupFollowsToggle ==
    /\ [](ppSectionHidden = ~ppChecked)
    /\ [][ppSectionHidden' # ppSectionHidden =>
            /\ ToggleChange \/ Back
            /\ ppSectionHidden' =
                  UpdatePostProcessingVisibility(ppChecked', ppSectionHidden)]_vars

C11_Witness ==
    /\ ppChecked # ppDefault
    /\ ppSectionHidden = ~ppChecked
    /\ response # NoResponse
    /\ posts > 0

C13_LoadingOnlyInFlight ==
    ~loadingHidden => inflight > 0

C13_Witness ==
    /\ ~loadingHidden
    /\ inflight = 1
    /\ posts = 2
    /\ posted # NoRequest

\* C14: in every state where an exchange is in flight, the form panel is
\* hidden.
C14_FormHiddenInFlight ==
    inflight > 0 => formHidden

\* C15: when every exchange settles, a visible progress panel is hidden
\* again sooner or later; the settlement that hides it leaves the form or
\* the result panel visible; and the progress panel is never up once no
\* exchange is left in flight.
C15_SubmittingEnds ==
    /\ (~loadingHidden) ~> loadingHidden
    /\ [][response' # NoResponse =>
            (loadingHidden' /\ (~formHidden' \/ ~resultHidden'))]_vars
    /\ [](inflight = 0 => loadingHidden)

C15_Witness ==
    /\ response # NoResponse
    /\ Succeeds(response)
    /\ ViewResult
    /\ inflight = 0
    /\ posts = 2

\* C16: a submit with a file selected while an earlier exchange is in
\* flight is neither rejected nor queued: the step itself gives fetch one
\* more POST and there is one more exchange in flight; and each settlement
\* takes one exchange out of flight and applies its own panel switch (the
\* form shown on a throw, the result panel shown otherwise).
C16_SecondSubmitPosts ==
    /\ [][(Submit /\ Len(files) > 0 /\ inflight > 0) =>
            /\ posted' # NoRequest
            /\ posted'.method = "POST"
            /\ inflight' = inflight + 1
            /\ alerted' = ""
            /\ ~loadingHidden'
            /\ formHidden']_vars
    /\ [][(inflight > 0 /\ posted' = NoRequest /\ response' = NoResponse) =>
            inflight' = inflight]_vars
    /\ [][response' # NoResponse =>
            /\ inflight' = inflight - 1
            /\ loadingHidden'
            /\ IF Throws(response') THEN ~formHidden' ELSE ~resultHidden']_vars

\* Two exchanges in flight, the second just posted.
C16_Witness ==
    /\ inflight = 2
    /\ posted # NoRequest
    /\ ViewSubmitting

\* C17: in every reachable state the label agrees with the selection: it
\* is the name of the first selected file when a file is selected, and the
\* default label when none is.
C17_LabelAgrees ==
    /\ Len(files) > 0 => fileName = files[1]
    /\ Len(files) = 0 => fileName = DefaultLabel

\* C18: a settlement that ends in the catch block leaves every option, the
\* options group's visibility, the selection with its label and its
\* file-present flag, and the result panel's two locations as they were; of
\* the page only the panels change, to the form shown and the progress
\* panel hidden.
C18_FailureKeepsInputs ==
    [][(response' # NoResponse /\ Throws(response')) =>
          /\ UNCHANGED <<options, ppSectionHidden, files, fileName, hasFile, results,
                         dragover, ppDefault>>
          /\ ~formHidden'
          /\ loadingHidden']_vars

\* A failure after an earlier success, with options away from their defaults.
C18_Witness ==
    /\ response # NoResponse
    /\ Fails(response)
    /\ videoSrc # ""
    /\ downloadHref # ""
    /\ language # DefaultLanguage
    /\ whisperPrompt # DefaultPrompt
    /\ ppChecked # ppDefault
    /\ hasFile
    /\ fileName = "b.mp4"
    /\ ViewForm

====
